---- MODULE Spec2Model ----
(***************************************************************************)
(* Plan-ultra: the AI gateway (geminiService: getApiKey, cleanJson,        *)
(* generateWithFallback, the exported generate*AI operations and           *)
(* chatWithLessonPlan) and the chat panel of the LessonGenerator view.     *)
(*                                                                         *)
(* Texts are sequences of characters (one string per character), so that   *)
(* the regular expression, trim, indexOf and substring of cleanJson and    *)
(* the grammar of JSON.parse are computed character by character.          *)
(***************************************************************************)
EXTENDS Integers, Sequences, FiniteSets, TLC

(***************************************************************************)
(* Bounds of the model.                                                    *)
(***************************************************************************)
\* number of gateway invocations followed in one behaviour
MaxInvocations == 2
\* number of chat messages sent by the user in one behaviour
MaxChatSends == 2
\* number of plan-form submissions in one behaviour
MaxSubmits == 2
\* operations (gateway calls, exports) the views start in one behaviour, over all widgets
MaxOperations == 3
\* slides of the longest deck the gateway returns
MaxSlides == 2

(***************************************************************************)
(* Values of JavaScript.                                                   *)
(***************************************************************************)
\* undefined / null (process.env.API_KEY unset, response.text absent, lastError = null)
Undefined == <<"undefined">>

\* a text literal, character by character
Quote == "\""
Newline == "\n"

(***************************************************************************)
(* String.prototype helpers used by cleanJson.                             *)
(***************************************************************************)
\* s.substring(n) for 0-based n: drop the first n characters
Drop(s, n) == SubSeq(s, n + 1, Len(s))

\* s.startsWith(p)
StartsWith(s, p) == Len(s) >= Len(p) /\ SubSeq(s, 1, Len(p)) = p

\* the characters String.prototype.trim removes (those the inputs contain)
WhiteSpace == {" ", "\n"}

\* the grave accent; the string lexer has no literal for it
Backtick == "BACKTICK"

FenceJson == <<Backtick, Backtick, Backtick, "j", "s", "o", "n">>
Fence == <<Backtick, Backtick, Backtick>>

\* text.replace(/FenceJson Newline?|Fence/g, ''): leftmost match first, the
\* first alternative before the second, the optional newline greedy
RECURSIVE ReplaceFences(_)
ReplaceFences(s) ==
  IF s = <<>> THEN <<>>
  ELSE IF StartsWith(s, FenceJson)
       THEN LET r == Drop(s, Len(FenceJson))
            IN  ReplaceFences(IF r # <<>> /\ Head(r) = Newline THEN Tail(r) ELSE r)
  ELSE IF StartsWith(s, Fence) THEN ReplaceFences(Drop(s, Len(Fence)))
  ELSE <<Head(s)>> \o ReplaceFences(Tail(s))

RECURSIVE TrimStart(_)
TrimStart(s) == IF s # <<>> /\ Head(s) \in WhiteSpace THEN TrimStart(Tail(s)) ELSE s

RECURSIVE TrimEnd(_)
TrimEnd(s) ==
  IF s # <<>> /\ s[Len(s)] \in WhiteSpace THEN TrimEnd(SubSeq(s, 1, Len(s) - 1)) ELSE s

\* s.trim()
Trim(s) == TrimEnd(TrimStart(s))

\* s.indexOf(c), 0-based, -1 when absent
IndexOf(s, c) ==
  IF \E i \in 1..Len(s) : s[i] = c
  THEN (CHOOSE i \in 1..Len(s) : s[i] = c /\ \A j \in 1..(i - 1) : s[j] # c) - 1
  ELSE -1

\* s.lastIndexOf(c), 0-based, -1 when absent
LastIndexOf(s, c) ==
  IF \E i \in 1..Len(s) : s[i] = c
  THEN (CHOOSE i \in 1..Len(s) : s[i] = c /\ \A j \in (i + 1)..Len(s) : s[j] # c) - 1
  ELSE -1

\* a cut that also drops the first brace
CutPreambleWithBrace(cleaned) ==
  LET firstBrace == IndexOf(cleaned, "{")
  IN  IF firstBrace >= 0 THEN Drop(cleaned, firstBrace + 1) ELSE cleaned

\* cleanJson, steps 2 and 3: cut the preamble before the first brace
CutPreamble(cleaned) ==
  LET firstBrace == IndexOf(cleaned, "{")
  IN  IF firstBrace > 0 THEN Drop(cleaned, firstBrace) ELSE cleaned

\* cleanJson, step 4: cut what follows the last closing brace
CutPostscript(cleaned) ==
  LET lastBrace == LastIndexOf(cleaned, "}")
  IN  IF lastBrace # -1 /\ lastBrace < Len(cleaned) - 1
      THEN SubSeq(cleaned, 1, lastBrace + 1)
      ELSE cleaned

cleanJson(text) == CutPostscript(CutPreamble(Trim(ReplaceFences(text))))

(***************************************************************************)
(* JSON.parse on the grammar the responses use: objects whose members are  *)
(* strings or objects, strings without escapes, white space between        *)
(* tokens.  A value is [t |-> "str", s |-> characters, m |-> <<>>] or      *)
(* [t |-> "obj", s |-> <<>>, m |-> function from keys to values].          *)
(***************************************************************************)
StrVal(chars) == [t |-> "str", s |-> chars, m |-> <<>>]
ObjVal(members) == [t |-> "obj", s |-> <<>>, m |-> members]
EmptyMembers == [k \in {} |-> Undefined]

\* obj[key] = v (a repeated key keeps the last value)
SetMember(members, key, v) ==
  [k \in (DOMAIN members) \cup {key} |-> IF k = key THEN v ELSE members[k]]

ParseFail == [ok |-> FALSE, val |-> Undefined, pos |-> 0]

RECURSIVE SkipWs(_, _)
SkipWs(s, i) == IF i <= Len(s) /\ s[i] \in WhiteSpace THEN SkipWs(s, i + 1) ELSE i

\* s[i] is the opening quote; control characters are not allowed in a string
ParseString(s, i) ==
  IF \E j \in (i + 1)..Len(s) : s[j] = Quote
  THEN LET j == CHOOSE j \in (i + 1)..Len(s) :
                  s[j] = Quote /\ \A k \in (i + 1)..(j - 1) : s[k] # Quote
           chars == SubSeq(s, i + 1, j - 1)
       IN  IF \E k \in 1..Len(chars) : chars[k] = Newline
           THEN ParseFail
           ELSE [ok |-> TRUE, val |-> StrVal(chars), pos |-> j + 1]
  ELSE ParseFail

RECURSIVE ParseValue(_, _)
RECURSIVE ParseMembers(_, _, _)

\* the members of an object, s[i - 1] being "{" or ","
ParseMembers(s, i, acc) ==
  LET j == SkipWs(s, i)
  IN  IF j > Len(s) \/ s[j] # Quote THEN ParseFail
      ELSE LET key == ParseString(s, j)
           IN  IF ~key.ok THEN ParseFail
               ELSE LET c == SkipWs(s, key.pos)
                    IN  IF c > Len(s) \/ s[c] # ":" THEN ParseFail
                        ELSE LET v == ParseValue(s, c + 1)
                             IN  IF ~v.ok THEN ParseFail
                                 ELSE LET e == SkipWs(s, v.pos)
                                          members == SetMember(acc, key.val.s, v.val)
                                      IN  IF e > Len(s) THEN ParseFail
                                          ELSE IF s[e] = "," THEN ParseMembers(s, e + 1, members)
                                          ELSE IF s[e] = "}"
                                               THEN [ok |-> TRUE, val |-> ObjVal(members), pos |-> e + 1]
                                          ELSE ParseFail

ParseValue(s, i) ==
  LET j == SkipWs(s, i)
  IN  IF j > Len(s) THEN ParseFail
      ELSE IF s[j] = Quote THEN ParseString(s, j)
      ELSE IF s[j] = "{"
           THEN LET k == SkipWs(s, j + 1)
                IN  IF k <= Len(s) /\ s[k] = "}"
                    THEN [ok |-> TRUE, val |-> ObjVal(EmptyMembers), pos |-> k + 1]
                    ELSE ParseMembers(s, j + 1, EmptyMembers)
      ELSE ParseFail

\* JSON.parse(text): ok is FALSE where JSON.parse throws a SyntaxError
JSONparse(text) ==
  LET v == ParseValue(text, 1)
  IN  IF v.ok /\ SkipWs(text, v.pos) > Len(text)
      THEN [ok |-> TRUE, val |-> v.val]
      ELSE [ok |-> FALSE, val |-> Undefined]

(***************************************************************************)
(* State.                                                                  *)
(***************************************************************************)
VARIABLES
  \* --- AI gateway (one invocation of an exported operation at a time) ---
  apiKey,        \* process.env.API_KEY
  op,            \* the exported operation being executed, "none" before the first
  pc,            \* "idle", "calling", "returned" or "thrown"
  primaryModel,  \* generateWithFallback's primaryModel argument
  uniqueModels,  \* generateWithFallback's uniqueModels (createChatAndSend's models for the chat)
  inflight,      \* indices of uniqueModels whose network call has not settled
  callLog,       \* the model of every network call issued, in order of issue
  netLog,        \* the outcome of every network call settled, in order
  warned,        \* every error caught by the loop of generateWithFallback (console.warn)
  lastError,     \* generateWithFallback's lastError
  parsedData,    \* the value generateWithFallback returned
  result,        \* the value the exported operation resolved with
  thrown,        \* the error the exported operation rejected with
  issuedIds,     \* the identifiers crypto.randomUUID has handed out
  plans,         \* the lesson plans generateLessonPlanAI has returned, oldest first
  invocations,   \* number of operations invoked so far
  \* --- cleanJson applied to a wrapped object ---
  jsonObj,       \* the text of a JSON object
  text,          \* the argument of cleanJson: the response text wrapped around it
  cleaned,       \* cleanJson(text)
  cleanPc,       \* "input", "cleaned" or "again"
  \* --- generateDocx applied to a plan ---
  docPlan,       \* the plan argument
  docPc,         \* "input", "saved" or "thrown"
  docSaved,      \* the children of the document handed to saveAs
  docError,      \* the error generateDocx rejected with
  \* --- LessonGenerator view: plan form and chat panel ---
  loading, generatedPlan, isChatOpen, chatMessages, currentChatInput, chatLoading,
  planCall,      \* the pending generateLessonPlanAI call, NoCall when none
  chatCall,      \* the pending chatWithLessonPlan call, NoCall when none
  submits, chatSends,
  planGenerated, \* the arguments onPlanGenerated was invoked with, oldest first
  widgetLoading, \* assessmentLoading .. vocabLoading, by widget
  widgetData,    \* assessmentData .. vocabData, by widget
  widgetCall,    \* the request of the widget's operation in flight
  activeSlide,
  \* --- HomeReviewGenerator ---
  reviewLoading, generatedMessage,
  \* --- what the views did to their environment ---
  inflightOps,   \* the gateway operations in flight, by widget
  operations,    \* number of gateway operations the views have started
  event,         \* what the last step was
  alerted,       \* the argument of window.alert in the last step, NoAlert when not called
  \* --- Dashboard rendered from a list of saved plans ---
  savedPlans,    \* the savedPlans prop
  dashPc,        \* "input" or "rendered"
  subjectCount, gradeCount,
  totalPlanes,   \* the figure under "Total Planes"
  \* --- the PDF of the plan form ---
  pdfFileName,   \* the name shown, or NoFile
  pdfData,       \* formData.pdfData
  readers,       \* FileReaders whose onloadend has not run yet
  selections,    \* files chosen so far
  sentPdf,       \* the inlineData parts of the requests built so far
  \* --- the home-review form and the plan linked to it ---
  linkedPlan,    \* the linkedPlan prop
  lastPlanId,    \* id of the plan the form was last filled from, or "null"
  reviewForm,    \* formData of HomeReviewGenerator
  lastEdit       \* name and value of the last change event handled, or NoEdit

gatewayVars == <<apiKey, op, pc, primaryModel, uniqueModels, inflight, callLog, netLog,
                 warned, lastError, parsedData, result, thrown, issuedIds, plans,
                 invocations>>
cleanVars == <<jsonObj, text, cleaned, cleanPc>>
docVars == <<docPlan, docPc, docSaved, docError>>
formVars == <<loading, generatedPlan, planCall, submits, planGenerated>>
chatVars == <<isChatOpen, chatMessages, currentChatInput, chatLoading, chatCall, chatSends>>
widgetVars == <<widgetLoading, widgetData, widgetCall, activeSlide>>
reviewVars == <<reviewLoading, generatedMessage>>
viewVars == <<formVars, chatVars, widgetVars, reviewVars, inflightOps, operations, event,
              alerted>>
dashVars == <<savedPlans, dashPc, subjectCount, gradeCount, totalPlanes>>
fileVars == <<pdfFileName, pdfData, readers, selections, sentPdf>>
autofillVars == <<linkedPlan, lastPlanId, reviewForm, lastEdit>>
sideVars == <<dashVars, fileVars, autofillVars>>
vars == <<gatewayVars, cleanVars, docVars, viewVars, sideVars>>

(***************************************************************************)
(* AI gateway.                                                             *)
(***************************************************************************)
FLASH == "gemini-3-flash-preview"
PRO == "gemini-3-pro-preview"

FALLBACK_MODELS == <<FLASH>>

\* the operations that end in generateWithFallback with the flash model
FlashOps == {"generateHomeReviewAI", "generateAssessmentAI", "generateAdaptationAI",
             "generateDynamicsAI", "generateWorksheetAI", "generateWhiteboardAI",
             "generateSlidesAI", "generateVocabularyAI"}
GenerateOps == {"generateLessonPlanAI"} \cup FlashOps
Ops == GenerateOps \cup {"chatWithLessonPlan"}

\* request.model of a LessonPlanRequest: "" stands for an absent or empty
\* model, the two options of the form's select, and a name that is neither
RequestModels == {"", FLASH, PRO, "gemini-2.5-flash"}

\* the values of process.env.API_KEY: unset, empty, set
EmptyString == <<>>
ApiKeys == {Undefined, EmptyString, <<"k", "e", "y">>}

\* errors: msg and model are the message, at is the network call (1-based
\* index in callLog) during which the Error object was created, 0 for none
Error(msg, model, at) == [msg |-> msg, model |-> model, at |-> at]
NoError == Error("null", "", 0)
ApiKeyMissing == Error("API Key missing", "", 0)

\* getApiKey throws (if (!key))
getApiKeyThrowsOnUnset(key) == key = Undefined
getApiKeyThrows(key) == key = Undefined \/ key = EmptyString

\* the primaryModel each exported operation passes to generateWithFallback
PrimaryModel(o, requestModel) ==
  IF o = "generateLessonPlanAI"
  THEN (IF requestModel = "" THEN PRO ELSE requestModel)
  ELSE FLASH

RECURSIVE Filter(_, _)
Filter(s, x) ==
  IF s = <<>> THEN <<>>
  ELSE IF Head(s) # x THEN <<Head(s)>> \o Filter(Tail(s), x) ELSE Filter(Tail(s), x)

\* [...new Set(s)]: insertion order, first occurrence kept
RECURSIVE SetOrder(_)
SetOrder(s) ==
  IF s = <<>> THEN <<>>
  ELSE LET front == SetOrder(SubSeq(s, 1, Len(s) - 1))
           x == s[Len(s)]
       IN  IF \E i \in 1..Len(front) : front[i] = x THEN front ELSE Append(front, x)

UniqueModelsNoDedup(primary) == <<primary>> \o FALLBACK_MODELS
UniqueModels(primary) == SetOrder(<<primary>> \o Filter(FALLBACK_MODELS, primary))

\* outcomes of one network call: the call throws msg, or resolves with a
\* response whose text is absent (kind "notext") or txt
Throws(msg) == [kind |-> "throw", msg |-> msg, txt |-> <<>>]
NoText == [kind |-> "notext", msg |-> "", txt |-> <<>>]
Text(txt) == [kind |-> "text", msg |-> "", txt |-> txt]

(***************************************************************************)
(* The texts and errors the hosted model answers with.                     *)
(***************************************************************************)
\* crypto.randomUUID never returns the same identifier twice
UUID(i) == <<"u", ToString(i)>>
UUIDs == {UUID(i) : i \in 1..MaxInvocations}

IdKey == <<"i", "d">>

\* {"a":"b"}
ObjText == <<"{", Quote, "a", Quote, ":", Quote, "b", Quote, "}">>
\* {"id":"u1","a":"b"}: a response that carries an id of its own
ObjIdText ==
  <<"{", Quote, "i", "d", Quote, ":", Quote>> \o UUID(1) \o <<Quote, ",">> \o Tail(ObjText)
\* the object in a json code fence
FencedText == FenceJson \o <<Newline>> \o ObjText \o <<Newline>> \o Fence
\* the object after a preamble
ProseText == <<"o", "k", ":", " ">> \o ObjText
\* a truncated object
BrokenText == <<"{", Quote, "a", Quote, ":">>

NetErrors == {"quota exceeded", "503"}
ResponseOutcomes ==
  {NoText, Text(EmptyString), Text(ObjText), Text(ObjIdText), Text(FencedText),
   Text(ProseText), Text(BrokenText)}
ChatOutcomes == {NoText, Text(<<"o", "k">>)}

UndefVal == [t |-> "undefined", s |-> <<>>, m |-> <<>>]

(***************************************************************************)
(* generateWithFallback.                                                   *)
(***************************************************************************)
\* the body of the try block once the call has resolved with a response,
\* without cleanJson
TryBodyNoClean(model, i, outcome) ==
  IF outcome.kind = "notext" \/ outcome.txt = EmptyString
  THEN [ok |-> FALSE, val |-> UndefVal, err |-> Error("No text in response", "", i)]
  ELSE LET parsed == JSONparse(outcome.txt)
       IN  IF parsed.ok
           THEN [ok |-> TRUE, val |-> parsed.val, err |-> NoError]
           ELSE [ok |-> FALSE, val |-> UndefVal,
                 err |-> Error("Invalid JSON returned by", model, i)]

\* the body of the try block with a parse error that is logged and swallowed
TryBodySwallow(model, i, outcome) ==
  IF outcome.kind = "notext" \/ outcome.txt = EmptyString
  THEN [ok |-> FALSE, val |-> UndefVal, err |-> Error("No text in response", "", i)]
  ELSE LET parsed == JSONparse(cleanJson(outcome.txt))
       IN  IF parsed.ok
           THEN [ok |-> TRUE, val |-> parsed.val, err |-> NoError]
           ELSE [ok |-> TRUE, val |-> UndefVal, err |-> NoError]

\* the body of the try block once the call has resolved with a response:
\* ok and val when it returns, err when it throws
TryBody(model, i, outcome) ==
  IF outcome.kind = "notext" \/ outcome.txt = EmptyString
  THEN [ok |-> FALSE, val |-> UndefVal, err |-> Error("No text in response", "", i)]
  ELSE LET parsed == JSONparse(cleanJson(outcome.txt))
       IN  IF parsed.ok
           THEN [ok |-> TRUE, val |-> parsed.val, err |-> NoError]
           ELSE [ok |-> FALSE, val |-> UndefVal,
                 err |-> Error("Invalid JSON returned by", model, i)]

\* lastError = error, keeping the first error instead
RecordFirstError(last, error) == IF last = NoError THEN error ELSE last
\* lastError = error
RecordError(last, error) == error

\* the calls an iteration of the loop issues, all remaining candidates at once
LaunchAll(models, i) == i..Len(models)
\* the calls iteration i of the loop issues before it awaits: candidate i
Launch(models, i) == {i}

\* the models of the calls S, S being an interval of indices of models
LaunchedModels(models, S) ==
  IF S = {} THEN <<>>
  ELSE LET lo == CHOOSE x \in S : \A y \in S : x <= y
       IN  [k \in 1..Cardinality(S) |-> models[lo + k - 1]]

\* { id: randomUUID(), ...parsedData }
WithIdFirst(parsed, uuid) ==
  IF IdKey \in DOMAIN parsed.m THEN ObjVal(parsed.m)
  ELSE ObjVal(SetMember(parsed.m, IdKey, StrVal(uuid)))
\* { ...parsedData, id: randomUUID() }, parsedData being an object
WithId(parsed, uuid) == ObjVal(SetMember(parsed.m, IdKey, StrVal(uuid)))

\* the positions a candidate list can have: the primary and the fallbacks
CandidateIndices == 1..(1 + Len(FALLBACK_MODELS))

CanInvoke == pc \in {"idle", "returned", "thrown"} /\ invocations < MaxInvocations

\* what a new invocation starts from
Started(o) ==
  /\ op' = o
  /\ invocations' = invocations + 1
  /\ netLog' = <<>>
  /\ warned' = <<>>
  /\ lastError' = NoError
  /\ parsedData' = UndefVal
  /\ result' = UndefVal
  /\ UNCHANGED <<apiKey, issuedIds, plans, cleanVars, sideVars, docVars, viewVars>>

\* any exported operation without a credential: getApiKey throws
InvokeWithoutKey(o) ==
  /\ CanInvoke
  /\ getApiKeyThrows(apiKey)
  /\ Started(o)
  /\ pc' = "thrown"
  /\ thrown' = ApiKeyMissing
  /\ primaryModel' = ""
  /\ uniqueModels' = <<>>
  /\ inflight' = {}
  /\ callLog' = <<>>

\* generate*AI up to the first await of generateWithFallback
InvokeGenerate(o, requestModel) ==
  /\ CanInvoke
  /\ ~getApiKeyThrows(apiKey)
  /\ o \in GenerateOps
  /\ o \in FlashOps => requestModel = ""
  /\ Started(o)
  /\ LET models == UniqueModels(PrimaryModel(o, requestModel))
     IN  /\ primaryModel' = PrimaryModel(o, requestModel)
         /\ uniqueModels' = models
         /\ inflight' = Launch(models, 1)
         /\ callLog' = LaunchedModels(models, Launch(models, 1))
  /\ pc' = "calling"
  /\ thrown' = NoError

\* the catch block of the loop, then the next iteration or the final throw
Fail(i, error) ==
  /\ warned' = Append(warned, error)
  /\ lastError' = RecordError(lastError, error)
  /\ IF i < Len(uniqueModels)
     THEN /\ inflight' = (inflight \ {i}) \cup Launch(uniqueModels, i + 1)
          /\ callLog' = callLog \o LaunchedModels(uniqueModels, Launch(uniqueModels, i + 1))
          /\ pc' = "calling"
          /\ thrown' = thrown
     ELSE /\ inflight' = inflight \ {i}
          /\ callLog' = callLog
          /\ pc' = "thrown"
          /\ thrown' = RecordError(lastError, error)
  /\ UNCHANGED <<parsedData, result, issuedIds, plans>>

\* return JSON.parse(cleanText), and the caller's return
Succeed(i, val) ==
  /\ parsedData' = val
  /\ inflight' = inflight \ {i}
  /\ pc' = "returned"
  /\ IF op = "generateLessonPlanAI"
     THEN \E uuid \in UUIDs \ issuedIds :
            /\ result' = WithId(val, uuid)
            /\ issuedIds' = issuedIds \cup {uuid}
            /\ plans' = Append(plans, WithId(val, uuid))
     ELSE /\ result' = val
          /\ UNCHANGED <<issuedIds, plans>>
  /\ UNCHANGED <<warned, lastError, callLog, thrown>>

\* ai.models.generateContent rejects
GenerateCallThrows(i, msg) ==
  /\ pc = "calling"
  /\ op \in GenerateOps
  /\ i \in inflight
  /\ netLog' = Append(netLog, Throws(msg))
  /\ Fail(i, Error(msg, "", i))
  /\ UNCHANGED <<apiKey, op, primaryModel, uniqueModels, invocations, cleanVars, sideVars, docVars, viewVars>>

\* ai.models.generateContent resolves with a response
GenerateCallResolves(i, outcome) ==
  /\ pc = "calling"
  /\ op \in GenerateOps
  /\ i \in inflight
  /\ netLog' = Append(netLog, outcome)
  /\ LET t == TryBody(uniqueModels[i], i, outcome)
     IN  IF t.ok THEN Succeed(i, t.val) ELSE Fail(i, t.err)
  /\ UNCHANGED <<apiKey, op, primaryModel, uniqueModels, invocations, cleanVars, sideVars, docVars, viewVars>>

(***************************************************************************)
(* chatWithLessonPlan.                                                     *)
(***************************************************************************)
\* the slower model first
CHAT_MODELS_SWAPPED == <<PRO, FLASH>>
\* the two models chatWithLessonPlan passes to createChatAndSend, in order
CHAT_MODELS == <<FLASH, PRO>>

\* up to the await of createChatAndSend(CHAT_MODELS[1])
InvokeChat ==
  /\ CanInvoke
  /\ ~getApiKeyThrows(apiKey)
  /\ Started("chatWithLessonPlan")
  /\ primaryModel' = ""
  /\ uniqueModels' = CHAT_MODELS
  /\ inflight' = {1}
  /\ callLog' = <<CHAT_MODELS[1]>>
  /\ pc' = "calling"
  /\ thrown' = NoError

\* chat.sendMessage rejects: the inner catch retries once, the outer rethrows
ChatCallThrows(i, msg) ==
  /\ pc = "calling"
  /\ op = "chatWithLessonPlan"
  /\ i \in inflight
  /\ netLog' = Append(netLog, Throws(msg))
  /\ IF i = 1
     THEN /\ inflight' = {2}
          /\ callLog' = Append(callLog, CHAT_MODELS[2])
          /\ UNCHANGED <<pc, thrown>>
     ELSE /\ inflight' = {}
          /\ pc' = "thrown"
          /\ thrown' = Error(msg, "", i)
          /\ UNCHANGED callLog
  /\ UNCHANGED <<apiKey, op, primaryModel, uniqueModels, warned, lastError, parsedData,
                 result, issuedIds, plans, invocations, cleanVars, sideVars, docVars, viewVars>>

\* chat.sendMessage resolves: return result.text
ChatCallResolves(i, outcome) ==
  /\ pc = "calling"
  /\ op = "chatWithLessonPlan"
  /\ i \in inflight
  /\ netLog' = Append(netLog, outcome)
  /\ inflight' = {}
  /\ pc' = "returned"
  /\ result' = IF outcome.kind = "notext" THEN UndefVal ELSE StrVal(outcome.txt)
  /\ UNCHANGED <<apiKey, op, primaryModel, uniqueModels, callLog, warned, lastError,
                 parsedData, thrown, issuedIds, plans, invocations, cleanVars, sideVars, docVars, viewVars>>

(***************************************************************************)
(* cleanJson on an object wrapped in a fence, a preamble and a postscript. *)
(***************************************************************************)
\* {}
EmptyObjText == <<"{", "}">>
\* {"a":{"b":"}"}}
NestedText ==
  <<"{", Quote, "a", Quote, ":", "{", Quote, "b", Quote, ":", Quote, "}", Quote, "}", "}">>
\* {"a":"b"}, {}, a nested object with a brace in a string
JsonObjects == {ObjText, EmptyObjText, NestedText}

FenceKinds == {"none", "plain", "json"}
FenceOpen(kind) ==
  IF kind = "none" THEN <<>>
  ELSE IF kind = "plain" THEN Fence \o <<Newline>>
  ELSE FenceJson \o <<Newline>>
FenceClose(kind) == IF kind = "none" THEN <<>> ELSE <<Newline>> \o Fence

\* nothing, prose, prose before a line break, prose that contains braces
Preambles == {<<>>, <<"o", "k", ":", " ">>, <<"o", "k", Newline>>, <<"s", "e", "e", " ", "{", "x", "}", " ">>}
Postscripts == {<<>>, <<" ", "o", "k">>, <<Newline, "o", "k">>, <<" ", "{", "x", "}">>}

\* texts that wrap no object: braces out of order, a lone brace, blanks,
\* fences next to stray grave accents
RawTexts ==
  {<<>>, <<" ", Newline>>, <<"}", " ", "{">>, <<"a", "}", " ", "b">>, <<" ", "x", "{", " ">>,
   <<"{">>, <<"}", "}">>,
   Fence \o <<" ", "{", "}", " ">> \o Fence,
   <<Backtick, Backtick>> \o FenceJson \o <<Backtick, "{", "}">>,
   <<Backtick>> \o Fence \o <<Backtick, Backtick, "j", "s", "o", "n", Newline, "{", "}">>}

Wrap(obj, kind, preamble, postscript) ==
  preamble \o FenceOpen(kind) \o obj \o FenceClose(kind) \o postscript

ApplyCleanJson ==
  /\ cleanPc = "input"
  /\ cleaned' = cleanJson(text)
  /\ cleanPc' = "cleaned"
  /\ UNCHANGED <<jsonObj, text, gatewayVars, docVars, viewVars, sideVars>>

\* cleanJson applied to its own result
ApplyCleanJsonAgain ==
  /\ cleanPc = "cleaned"
  /\ text' = cleaned
  /\ cleaned' = cleanJson(cleaned)
  /\ cleanPc' = "again"
  /\ UNCHANGED <<jsonObj, gatewayVars, docVars, viewVars, sideVars>>

(***************************************************************************)
(* generateDocx: the children of the document's only section.              *)
(***************************************************************************)
MaxSteps == 2

\* new Paragraph(...), new Table(...): the kind, then the runs of text
Paragraph(runs) == <<"p">> \o runs
Heading(txt) == <<"h", txt>>
Spacer == Paragraph(<<"">>)
GeneralDataTable(generalData, currentDate) ==
  <<"table", "Grado:", generalData.grade, "Asignatura:", generalData.subject,
    "Fecha:", currentDate, "Unidad:", generalData.unit>>

\* array.map(x => new Paragraph({ text: prefix + x }))
MapParagraphs(prefix, items) ==
  [i \in 1..Len(items) |-> Paragraph(<<prefix, items[i]>>)]

\* array.join(", ")
RECURSIVE Join(_)
Join(items) ==
  IF items = <<>> THEN <<>>
  ELSE IF Len(items) = 1 THEN items
  ELSE <<Head(items), ", ">> \o Join(Tail(items))

StepParagraphs(step) ==
  <<Paragraph(<<step.phase, ": ", step.title, " (", step.time, ")">>)>>
    \o MapParagraphs("* ", step.activities)
    \o <<Spacer>>

\* plan.sequence.flatMap(step => [...])
RECURSIVE FlatMapSteps(_)
FlatMapSteps(sequence) ==
  IF sequence = <<>> THEN <<>>
  ELSE StepParagraphs(Head(sequence)) \o FlatMapSteps(Tail(sequence))

\* a teacher guide: whether the property is set to an object, and which of
\* the object's own properties are defined
TeacherGuide(defined, keys, keyVocabulary, differentiation) ==
  [defined |-> defined, keys |-> keys, keyVocabulary |-> keyVocabulary,
   differentiation |-> differentiation]
GuideKeys == {"keyVocabulary", "differentiation"}
\* plan.teacherGuide ? ... : ...
Truthy(guide) == guide.defined

EvaluationCuantitativaFirst(evaluation) ==
  <<Heading("Evaluacion:"), Paragraph(<<"Cuantitativa:">>)>>
    \o MapParagraphs("- ", evaluation.quantitative)
    \o <<Spacer, Paragraph(<<"Cualitativa:">>)>>
    \o MapParagraphs("- ", evaluation.qualitative)
    \o <<Spacer>>
EvaluationParagraphs(evaluation) ==
  <<Heading("Evaluacion:"), Paragraph(<<"Cualitativa:">>)>>
    \o MapParagraphs("- ", evaluation.qualitative)
    \o <<Spacer, Paragraph(<<"Cuantitativa:">>)>>
    \o MapParagraphs("- ", evaluation.quantitative)
    \o <<Spacer>>

TeacherGuideParagraphs(guide) ==
  IF Truthy(guide)
  THEN <<Heading("Guia Docente:"), Paragraph(<<"Vocabulario Clave:">>),
         Paragraph(Join(guide.keyVocabulary)), Spacer,
         Paragraph(<<"Estrategias de Diferenciacion:">>)>>
       \o MapParagraphs("* ", guide.differentiation)
  ELSE <<>>

\* evaluating the children throws a TypeError: .join or .map of undefined
DocxThrows(plan) ==
  Truthy(plan.teacherGuide) /\ plan.teacherGuide.keys # GuideKeys

DocxChildren(plan, currentDate) ==
  <<Spacer, GeneralDataTable(plan.generalData, currentDate), Spacer,
    Heading("Contenido Conceptual:"), Paragraph(<<plan.generalData.contentConceptual>>),
    Spacer,
    Heading("Indicador de Logro:"), Paragraph(<<plan.generalData.achievementIndicator>>),
    Spacer,
    Heading("Integracion de la Fe:"), Spacer,
    Paragraph(<<"Concepto: ", plan.faithIntegration.spiritualConcept>>),
    Paragraph(<<"Versiculo: ", Quote, plan.faithIntegration.bibleVerse, Quote>>),
    Spacer,
    Heading("Secuencia Didactica (ACES):"), Spacer>>
    \o FlatMapSteps(plan.sequence)
    \o EvaluationParagraphs(plan.evaluation)
    \o TeacherGuideParagraphs(plan.teacherGuide)

TypeError == "TypeError"
CurrentDate == "4/11/2026"

\* the plans handed to the exporter
GeneralData ==
  [grade |-> "3", subject |-> "Lengua", unit |-> "II",
   contentConceptual |-> "El verbo", achievementIndicator |-> "Conjuga verbos"]
FaithIntegration == [spiritualConcept |-> "Gratitud", bibleVerse |-> "Sal 100"]
StepInicio == [phase |-> "A", title |-> "Inicio", time |-> "10 min", activities |-> <<"canto">>]
StepCierre ==
  [phase |-> "C", title |-> "Cierre", time |-> "5 min", activities |-> <<"resumen", "oracion">>]
Steps == {StepInicio, StepCierre}
RECURSIVE SeqsUpTo(_, _)
SeqsUpTo(S, n) ==
  IF n = 0 THEN {<<>>}
  ELSE SeqsUpTo(S, n - 1) \cup {Append(q, x) : q \in {r \in SeqsUpTo(S, n - 1) : Len(r) = n - 1}, x \in S}
Sequences == SeqsUpTo(Steps, MaxSteps)
Evaluations ==
  {[qualitative |-> ql, quantitative |-> qn] :
     ql \in {<<>>, <<"participa">>}, qn \in {<<"prueba">>, <<"prueba", "tarea">>}}
\* no guide; {} ; a guide without differentiation; a guide of empty lists; a guide
AbsentGuide == TeacherGuide(FALSE, {}, <<>>, <<>>)
EmptyObjectGuide == TeacherGuide(TRUE, {}, <<>>, <<>>)
FullGuide == TeacherGuide(TRUE, GuideKeys, <<"verbo", "accion">>, <<"apoyo visual">>)
TeacherGuides ==
  {AbsentGuide, EmptyObjectGuide,
   TeacherGuide(TRUE, {"keyVocabulary"}, <<"verbo">>, <<>>),
   TeacherGuide(TRUE, GuideKeys, <<>>, <<>>), FullGuide}
PlanContent(sequence, evaluation, guide) ==
  [generalData |-> GeneralData, faithIntegration |-> FaithIntegration,
   sequence |-> sequence, evaluation |-> evaluation, teacherGuide |-> guide]
DocxPlans ==
  {PlanContent(sq, ev, g) : sq \in Sequences, ev \in Evaluations, g \in TeacherGuides}

PackerError == "PackerError"

\* a builder that works on a plan stripped of its teacher guide
BuildDocumentStripsGuide(plan) ==
  /\ docPlan' = [plan EXCEPT !.teacherGuide = AbsentGuide]
  /\ docSaved' = <<>>
  /\ IF DocxThrows(plan)
     THEN docPc' = "thrown" /\ docError' = TypeError
     ELSE docPc' = "packing" /\ docError' = "null"
\* generateDocx(plan) up to its await: the document is built
BuildDocument(plan) ==
  /\ docPlan' = plan
  /\ docSaved' = <<>>
  /\ IF DocxThrows(plan)
     THEN docPc' = "thrown" /\ docError' = TypeError
     ELSE docPc' = "packing" /\ docError' = "null"
\* Packer.toBlob resolves, saveAs
SaveDocument ==
  /\ docPc = "packing"
  /\ docPc' = "saved"
  /\ docSaved' = DocxChildren(docPlan, CurrentDate)
  /\ UNCHANGED <<docPlan, docError>>
\* Packer.toBlob rejects
FailDocument ==
  /\ docPc = "packing"
  /\ docPc' = "thrown"
  /\ docError' = PackerError
  /\ UNCHANGED <<docPlan, docSaved>>

generateDocx ==
  /\ docPc = "input"
  /\ BuildDocument(docPlan)
  /\ UNCHANGED <<gatewayVars, cleanVars, sideVars, viewVars>>
ToBlobResolves == SaveDocument /\ UNCHANGED <<gatewayVars, cleanVars, sideVars, viewVars>>
ToBlobRejects == FailDocument /\ UNCHANGED <<gatewayVars, cleanVars, sideVars, viewVars>>

(***************************************************************************)
(* LessonGenerator and HomeReviewGenerator: the forms, the artefact        *)
(* widgets, the Word export and the chat panel.                            *)
(***************************************************************************)
NoPlan == [null |-> TRUE]
\* the plans generateLessonPlanAI resolves with, before the identifier: one
\* with a full teacher guide, one whose teacher guide is {}
PlanValues ==
  {PlanContent(<<StepInicio>>, [qualitative |-> <<"participa">>, quantitative |-> <<"prueba">>],
               FullGuide),
   PlanContent(<<>>, [qualitative |-> <<>>, quantitative |-> <<"prueba">>], EmptyObjectGuide)}
\* { ...parsedData, id }
Plan(content, id) ==
  [id |-> id, generalData |-> content.generalData,
   faithIntegration |-> content.faithIntegration, sequence |-> content.sequence,
   evaluation |-> content.evaluation, teacherGuide |-> content.teacherGuide]

Message(role, txt) == [role |-> role, text |-> txt]
\* the text shown when the chat call rejects ("Error de conexion. Intenta de nuevo."), first word
ConnectionError == <<"E", "r", "r", "o", "r">>
\* what the user types: a question, a blank
ChatInputs == {<<"h", "i">>, <<" ">>}
\* what chatWithLessonPlan resolves with
ChatReplies == {<<"o", "k">>}

NoChatCall == [pending |-> FALSE, plan |-> NoPlan, history |-> <<>>, newMessage |-> <<>>]

\* the widgets that derive an artefact from the plan held
ArtefactWidgets ==
  {"assessment", "adaptation", "dynamics", "worksheet", "whiteboard", "slides", "vocab"}
\* every widget that starts gateway operations
Widgets == {"plan", "review", "chat"} \cup ArtefactWidgets
AssessmentTypes == {"QUIZ", "RUBRIC"}

NoAlert == "none"
PlanError == "Error generating plan. The AI models may be busy or your API key permissions are restricted. Check console for details."
ReviewError == "Error generating review. Please try again."
WordError == "Error al generar el documento Word"
\* the argument of alert in the catch block of the widget's handler
ArtefactError(w) ==
  CASE w = "assessment" -> "Error generando evaluacion."
    [] w = "adaptation" -> "Error generando adecuacion."
    [] w = "dynamics" -> "Error generando dinamicas."
    [] w = "worksheet" -> "Error generando hoja de trabajo"
    [] w = "whiteboard" -> "Error generando pizarra"
    [] w = "slides" -> "Error generando presentacion"
    [] w = "vocab" -> "Error generando tarjetas de vocabulario"

\* what a step was: a user action that starts an operation, a call that
\* resolves or rejects, or any other user action
Event(kind, widget) == [kind |-> kind, widget |-> widget]
NoEvent == Event("none", "none")

\* the request of an artefact operation: the plan it was built from
NoRequest == [plan |-> <<>>, type |-> ""]
Request(plan, type) == [plan |-> plan.id, type |-> type]
\* the stored result of an artefact operation
\* a stored result: the plan its request was built from and, for a slide
\* deck, result.slides.length (0 for the other artefacts)
NoData == [set |-> FALSE, plan |-> <<>>, slides |-> 0]
Data(request, slides) == [set |-> TRUE, plan |-> request.plan, slides |-> slides]
NoMessage == "null"
ReviewMessages == {"Repasar el verbo"}

\* disabled={assessmentLoading} .. disabled={vocabLoading} of the widget's buttons
ArtefactDisabledNever(w) == FALSE
ArtefactDisabled(w) == widgetLoading[w]

\* the buttons of artefact widget w are rendered and enabled
ArtefactButton(w) == generatedPlan # NoPlan /\ ~ArtefactDisabled(w)
\* the Word button is rendered
WordButton == generatedPlan # NoPlan

\* the chat input and the send button are rendered and enabled
ChatEnabled == generatedPlan # NoPlan /\ isChatOpen /\ ~chatLoading

\* the history argument, taken after the user message has been appended
HistoryWithNewMessage(messages, userMsg) == Append(messages, Message("user", userMsg))
\* the history argument of chatWithLessonPlan: chatMessages of the render
\* the handler was created in
HistoryArgument(messages, userMsg) == messages

\* one more operation of widget w is in flight, one fewer
Begin(w) ==
  /\ operations < MaxOperations
  /\ operations' = operations + 1
  /\ inflightOps' = [inflightOps EXCEPT ![w] = @ + 1]
  /\ event' = Event("start", w)
Settle(w, kind) ==
  /\ inflightOps[w] > 0
  /\ inflightOps' = [inflightOps EXCEPT ![w] = @ - 1]
  /\ event' = Event(kind, w)
  /\ UNCHANGED operations
\* the handler of widget w returns on its first line: it sets and calls nothing
Return(w) ==
  /\ event' = Event("return", w)
  /\ alerted' = NoAlert
  /\ UNCHANGED <<operations, inflightOps, formVars, chatVars, widgetVars, reviewVars,
                 gatewayVars, cleanVars, sideVars, docVars>>
\* a control of the view: its handler runs only where the control is
\* rendered and not disabled
Control(enabled, handler) == enabled /\ handler
\* a user action that starts nothing
Ui ==
  /\ event' = Event("ui", "none")
  /\ alerted' = NoAlert
  /\ UNCHANGED <<operations, inflightOps>>

handleSubmit ==
  /\ ~loading
  /\ submits < MaxSubmits
  /\ Begin("plan")
  /\ submits' = submits + 1
  /\ loading' = TRUE
  /\ generatedPlan' = NoPlan
  /\ widgetData' = [w \in ArtefactWidgets |-> NoData]
  /\ chatMessages' = <<>>
  /\ planCall' = "pending"
  /\ alerted' = NoAlert
  /\ UNCHANGED <<planGenerated, isChatOpen, currentChatInput, chatLoading, chatCall,
                 chatSends, widgetLoading, widgetCall, activeSlide, reviewVars,
                 gatewayVars, cleanVars, sideVars, docVars>>

\* generateLessonPlanAI resolves and onPlanGenerated is invoked twice
PlanResolvesReportsTwice(content) ==
  /\ planCall = "pending"
  /\ Settle("plan", "resolve")
  /\ generatedPlan' = Plan(content, UUID(submits))
  /\ planGenerated' = Append(Append(planGenerated, generatedPlan'), generatedPlan')
  /\ loading' = FALSE
  /\ planCall' = "none"
  /\ alerted' = NoAlert
  /\ UNCHANGED <<submits, chatVars, widgetVars, reviewVars, gatewayVars, cleanVars, sideVars, docVars>>
\* generateLessonPlanAI resolves: setGeneratedPlan(plan), onPlanGenerated(plan),
\* finally setLoading(false)
PlanResolves(content) ==
  /\ planCall = "pending"
  /\ Settle("plan", "resolve")
  /\ generatedPlan' = Plan(content, UUID(submits))
  /\ planGenerated' = Append(planGenerated, generatedPlan')
  /\ loading' = FALSE
  /\ planCall' = "none"
  /\ alerted' = NoAlert
  /\ UNCHANGED <<submits, chatVars, widgetVars, reviewVars, gatewayVars, cleanVars, sideVars, docVars>>

\* generateLessonPlanAI rejects and there is no finally block
PlanRejectsNoFinally ==
  /\ planCall = "pending"
  /\ Settle("plan", "reject")
  /\ alerted' = PlanError
  /\ planCall' = "none"
  /\ UNCHANGED <<loading, generatedPlan, planGenerated, submits, chatVars, widgetVars,
                 reviewVars, gatewayVars, cleanVars, sideVars, docVars>>
\* generateLessonPlanAI rejects: alert, finally setLoading(false)
PlanRejects ==
  /\ planCall = "pending"
  /\ Settle("plan", "reject")
  /\ alerted' = PlanError
  /\ loading' = FALSE
  /\ planCall' = "none"
  /\ UNCHANGED <<generatedPlan, planGenerated, submits, chatVars, widgetVars, reviewVars,
                 gatewayVars, cleanVars, sideVars, docVars>>

\* the floating button and the close button of the panel
ToggleChat ==
  /\ generatedPlan # NoPlan
  /\ Ui
  /\ isChatOpen' = ~isChatOpen
  /\ UNCHANGED <<formVars, chatMessages, currentChatInput, chatLoading, chatCall, chatSends,
                 widgetVars, reviewVars, gatewayVars, cleanVars, sideVars, docVars>>

\* onChange of the chat input
TypeChat(txt) ==
  /\ ChatEnabled
  /\ Ui
  /\ currentChatInput' = txt
  /\ UNCHANGED <<formVars, isChatOpen, chatMessages, chatLoading, chatCall, chatSends,
                 widgetVars, reviewVars, gatewayVars, cleanVars, sideVars, docVars>>

\* the handler sends whatever the input holds
handleSendChatNoTrim ==
  IF generatedPlan = NoPlan
  THEN Return("chat")
  ELSE /\ chatSends < MaxChatSends
       /\ Begin("chat")
       /\ chatMessages' = Append(chatMessages, Message("user", currentChatInput))
       /\ currentChatInput' = EmptyString
       /\ chatLoading' = TRUE
       /\ chatCall' = [pending |-> TRUE, plan |-> generatedPlan,
                       history |-> HistoryArgument(chatMessages, currentChatInput),
                       newMessage |-> currentChatInput]
       /\ chatSends' = chatSends + 1
       /\ alerted' = NoAlert
       /\ UNCHANGED <<formVars, isChatOpen, widgetVars, reviewVars, gatewayVars, cleanVars,
                      sideVars, docVars>>
\* Enter in the chat input or a click on the send button:
\* if (!currentChatInput.trim() || !generatedPlan) return;
handleSendChat ==
  IF Trim(currentChatInput) = EmptyString \/ generatedPlan = NoPlan
  THEN Return("chat")
  ELSE /\ chatSends < MaxChatSends
       /\ Begin("chat")
       /\ chatMessages' = Append(chatMessages, Message("user", currentChatInput))
       /\ currentChatInput' = EmptyString
       /\ chatLoading' = TRUE
       /\ chatCall' = [pending |-> TRUE, plan |-> generatedPlan,
                       history |-> HistoryArgument(chatMessages, currentChatInput),
                       newMessage |-> currentChatInput]
       /\ chatSends' = chatSends + 1
       /\ alerted' = NoAlert
       /\ UNCHANGED <<formVars, isChatOpen, widgetVars, reviewVars, gatewayVars, cleanVars,
                      sideVars, docVars>>

\* chatWithLessonPlan resolves
ChatResolves(reply) ==
  /\ chatCall.pending
  /\ Settle("chat", "resolve")
  /\ chatMessages' = Append(chatMessages, Message("model", reply))
  /\ chatLoading' = FALSE
  /\ chatCall' = NoChatCall
  /\ alerted' = NoAlert
  /\ UNCHANGED <<formVars, isChatOpen, currentChatInput, chatSends, widgetVars, reviewVars,
                 gatewayVars, cleanVars, sideVars, docVars>>

\* chatWithLessonPlan rejects
ChatRejects ==
  /\ chatCall.pending
  /\ Settle("chat", "reject")
  /\ chatMessages' = Append(chatMessages, Message("model", ConnectionError))
  /\ chatLoading' = FALSE
  /\ chatCall' = NoChatCall
  /\ alerted' = NoAlert
  /\ UNCHANGED <<formVars, isChatOpen, currentChatInput, chatSends, widgetVars, reviewVars,
                 gatewayVars, cleanVars, sideVars, docVars>>

\* a click on a button of artefact widget w that also empties the transcript
handleGenerateResetsChat(w, type) ==
  IF generatedPlan = NoPlan
  THEN Return(w)
  ELSE /\ Begin(w)
       /\ widgetLoading' = [widgetLoading EXCEPT ![w] = TRUE]
       /\ widgetCall' = [widgetCall EXCEPT ![w] = Request(generatedPlan, type)]
       /\ chatMessages' = <<>>
       /\ alerted' = NoAlert
       /\ UNCHANGED <<formVars, isChatOpen, currentChatInput, chatLoading, chatCall, chatSends,
                      widgetData, activeSlide, reviewVars, gatewayVars, cleanVars, sideVars,
                      docVars>>
\* the handler of artefact widget w: if (!generatedPlan) return;
\* setLoading(true), the call
handleGenerate(w, type) ==
  IF generatedPlan = NoPlan
  THEN Return(w)
  ELSE /\ Begin(w)
       /\ widgetLoading' = [widgetLoading EXCEPT ![w] = TRUE]
       /\ widgetCall' = [widgetCall EXCEPT ![w] = Request(generatedPlan, type)]
       /\ alerted' = NoAlert
       /\ UNCHANGED <<formVars, chatVars, widgetData, activeSlide, reviewVars, gatewayVars,
                      cleanVars, sideVars, docVars>>

handleGenerateAssessment(type) == handleGenerate("assessment", type)
handleGenerateAdaptation == handleGenerate("adaptation", "")
handleGenerateDynamics == handleGenerate("dynamics", "")
handleGenerateWorksheet == handleGenerate("worksheet", "")
handleGenerateWhiteboard == handleGenerate("whiteboard", "")
handleGenerateSlides == handleGenerate("slides", "")
handleGenerateVocabulary == handleGenerate("vocab", "")

\* the widget's call resolves: setData(result), finally setLoading(false);
\* the slides handler also calls setActiveSlide(0)
ArtefactResolves(w, slides) ==
  /\ Settle(w, "resolve")
  /\ widgetData' = [widgetData EXCEPT ![w] = Data(widgetCall[w], slides)]
  /\ activeSlide' = IF w = "slides" THEN 0 ELSE activeSlide
  /\ widgetLoading' = [widgetLoading EXCEPT ![w] = FALSE]
  /\ widgetCall' = [widgetCall EXCEPT ![w] = NoRequest]
  /\ alerted' = NoAlert
  /\ UNCHANGED <<formVars, chatVars, reviewVars, gatewayVars, cleanVars, sideVars, docVars>>

\* the slide viewer is rendered: slidesData.slides[activeSlide] is read
SlidesRendered ==
  /\ generatedPlan # NoPlan
  /\ widgetData["slides"].set
  /\ activeSlide \in 0..(widgetData["slides"].slides - 1)

SlideStep ==
  /\ Ui
  /\ UNCHANGED <<formVars, chatVars, widgetLoading, widgetData, widgetCall, reviewVars,
                 gatewayVars, cleanVars, sideVars, docVars>>

\* setActiveSlide(Math.max(0, activeSlide - 1)), disabled on the first slide
previousSlide ==
  /\ SlidesRendered
  /\ activeSlide # 0
  /\ activeSlide' = IF activeSlide - 1 > 0 THEN activeSlide - 1 ELSE 0
  /\ SlideStep

\* setActiveSlide(Math.min(slides.length - 1, activeSlide + 1)), disabled on
\* the last slide
nextSlide ==
  /\ SlidesRendered
  /\ activeSlide # widgetData["slides"].slides - 1
  /\ activeSlide' = IF activeSlide + 1 < widgetData["slides"].slides - 1
                    THEN activeSlide + 1 ELSE widgetData["slides"].slides - 1
  /\ SlideStep

\* the widget's call rejects and the catch block shows nothing
ArtefactRejectsSilent(w) ==
  /\ Settle(w, "reject")
  /\ alerted' = NoAlert
  /\ widgetLoading' = [widgetLoading EXCEPT ![w] = FALSE]
  /\ widgetCall' = [widgetCall EXCEPT ![w] = NoRequest]
  /\ UNCHANGED <<formVars, chatVars, widgetData, activeSlide, reviewVars,
                 gatewayVars, cleanVars, sideVars, docVars>>
\* the widget's call rejects: alert, finally setLoading(false)
ArtefactRejects(w) ==
  /\ Settle(w, "reject")
  /\ alerted' = ArtefactError(w)
  /\ widgetLoading' = [widgetLoading EXCEPT ![w] = FALSE]
  /\ widgetCall' = [widgetCall EXCEPT ![w] = NoRequest]
  /\ UNCHANGED <<formVars, chatVars, widgetData, activeSlide, reviewVars,
                 gatewayVars, cleanVars, sideVars, docVars>>

\* HomeReviewGenerator: the form is submitted
generateReview ==
  /\ ~reviewLoading
  /\ Begin("review")
  /\ reviewLoading' = TRUE
  /\ generatedMessage' = NoMessage
  /\ alerted' = NoAlert
  /\ UNCHANGED <<formVars, chatVars, widgetVars, gatewayVars, cleanVars, sideVars, docVars>>

ReviewResolves(message) ==
  /\ Settle("review", "resolve")
  /\ generatedMessage' = message
  /\ reviewLoading' = FALSE
  /\ alerted' = NoAlert
  /\ UNCHANGED <<formVars, chatVars, widgetVars, gatewayVars, cleanVars, sideVars, docVars>>

ReviewRejects ==
  /\ Settle("review", "reject")
  /\ alerted' = ReviewError
  /\ reviewLoading' = FALSE
  /\ UNCHANGED <<generatedMessage, formVars, chatVars, widgetVars, gatewayVars, cleanVars, sideVars,
                 docVars>>

\* a click on the Word button, the call not wrapped in try and catch
handleDownloadWordNoCatch ==
  IF generatedPlan = NoPlan
  THEN Return("word")
  ELSE /\ docPc # "packing"
       /\ operations < MaxOperations
       /\ operations' = operations + 1
       /\ BuildDocument(generatedPlan)
       /\ IF DocxThrows(generatedPlan)
          THEN event' = Event("reject", "word") /\ alerted' = NoAlert
          ELSE event' = Event("start", "word") /\ alerted' = NoAlert
       /\ UNCHANGED <<formVars, chatVars, widgetVars, reviewVars, inflightOps,
                      gatewayVars, cleanVars, sideVars>>
\* the handler of the Word button: if (!generatedPlan) return;
\* generateDocx(generatedPlan), one export at a time
handleDownloadWord ==
  IF generatedPlan = NoPlan
  THEN Return("word")
  ELSE /\ docPc # "packing"
       /\ operations < MaxOperations
       /\ operations' = operations + 1
       /\ BuildDocument(generatedPlan)
       /\ IF DocxThrows(generatedPlan)
          THEN event' = Event("reject", "word") /\ alerted' = WordError
          ELSE event' = Event("start", "word") /\ alerted' = NoAlert
       /\ UNCHANGED <<formVars, chatVars, widgetVars, reviewVars, inflightOps,
                      gatewayVars, cleanVars, sideVars>>

\* generateDocx resolves
ExportResolves ==
  /\ SaveDocument
  /\ event' = Event("resolve", "word")
  /\ alerted' = NoAlert
  /\ UNCHANGED <<formVars, chatVars, widgetVars, reviewVars, inflightOps, operations,
                 gatewayVars, cleanVars, sideVars>>

\* generateDocx rejects: console.error, alert
ExportRejects ==
  /\ FailDocument
  /\ event' = Event("reject", "word")
  /\ alerted' = WordError
  /\ UNCHANGED <<formVars, chatVars, widgetVars, reviewVars, inflightOps, operations,
                 gatewayVars, cleanVars, sideVars>>

(***************************************************************************)
(* Dashboard: the counts shown for a list of saved plans.                  *)
(***************************************************************************)
MaxPlans == 3

\* a value held by a property of the accumulator: a number, or the string
\* that adding 1 to a function or to a string gives, by the count of 1s added
Number(n) == [num |-> TRUE, n |-> n]
StringOfOnes(n) == [num |-> FALSE, n |-> n]
\* the properties every object literal inherits from Object.prototype
\* (functions), by name
ObjectPrototypeKeys == {"constructor", "toString", "valueOf", "hasOwnProperty"}

\* (acc[key] || 0) + 1
Increment(acc, key) ==
  IF key \in DOMAIN acc
  THEN IF acc[key].num THEN Number(acc[key].n + 1) ELSE StringOfOnes(acc[key].n + 1)
  ELSE IF key \in ObjectPrototypeKeys THEN StringOfOnes(1)
  ELSE Number(1)

\* savedPlans.reduce((acc, plan) => { acc[k] = (acc[k] || 0) + 1; return acc }, {})
\* over the keys of the plans, in list order
RECURSIVE CountBy(_, _)
CountBy(keys, acc) ==
  IF keys = <<>> THEN acc
  ELSE LET key == Head(keys)
           v == Increment(acc, key)
       IN CountBy(Tail(keys),
                  [k \in (DOMAIN acc) \cup {key} |-> IF k = key THEN v ELSE acc[k]])

EmptyObject == [k \in {} |-> Number(0)]

\* generalData.subject and generalData.grade as the model returns them
SubjectValues == {"Matematicas", "Biblia", "constructor"}
GradeValues == {"1er Grado", "5to Grado"}
SavedPlanValues == {[subject |-> sb, grade |-> gr] : sb \in SubjectValues, gr \in GradeValues}
SavedPlanLists == SeqsUpTo(SavedPlanValues, MaxPlans)

\* one render of Dashboard
Dashboard ==
  /\ dashPc = "input"
  /\ subjectCount' = CountBy([i \in 1..Len(savedPlans) |-> savedPlans[i].subject], EmptyObject)
  /\ gradeCount' = CountBy([i \in 1..Len(savedPlans) |-> savedPlans[i].grade], EmptyObject)
  /\ totalPlanes' = Len(savedPlans)
  /\ dashPc' = "rendered"
  /\ UNCHANGED <<savedPlans, fileVars, autofillVars, gatewayVars, cleanVars, docVars, viewVars>>

(***************************************************************************)
(* The PDF attached to the plan form.                                      *)
(***************************************************************************)
MaxSelections == 3

NoFile == [null |-> TRUE]
File(name, content) == [name |-> name, content |-> content]
Files == {File("a.pdf", <<"J", "V">>), File("b.pdf", <<"Q", "k">>)}

\* reader.result after readAsDataURL(file)
DataURL(file) == <<"data:application/pdf;base64", ",">> \o file.content
\* base64String.split(',')[1]
SplitComma1(s) ==
  LET rest == Drop(s, IndexOf(s, ",") + 1)
      next == IndexOf(rest, ",")
  IN IF next = -1 THEN rest ELSE SubSeq(rest, 1, next)

FileUnchanged == UNCHANGED <<dashVars, autofillVars, gatewayVars, cleanVars, docVars, viewVars>>

\* the file input is rendered only while no name is shown
handleFileChange(file) ==
  /\ pdfFileName = NoFile
  /\ selections < MaxSelections
  /\ selections' = selections + 1
  /\ pdfFileName' = [name |-> file.name]
  /\ readers' = readers \cup {[id |-> selections + 1, file |-> file]}
  /\ UNCHANGED <<pdfData, sentPdf>>
  /\ FileUnchanged

\* reader.onloadend
onloadend(reader) ==
  /\ reader \in readers
  /\ readers' = readers \ {reader}
  /\ pdfData' = SplitComma1(DataURL(reader.file))
  /\ UNCHANGED <<pdfFileName, selections, sentPdf>>
  /\ FileUnchanged

\* the clear button is rendered only while a name is shown
clearFile ==
  /\ pdfFileName # NoFile
  /\ pdfFileName' = NoFile
  /\ pdfData' = Undefined
  /\ UNCHANGED <<readers, selections, sentPdf>>
  /\ FileUnchanged

\* generateLessonPlanAI(formData): if (request.pdfData) parts.push(inlineData)
SendRequest ==
  /\ sentPdf' = IF pdfData # Undefined /\ pdfData # <<>>
                THEN sentPdf \cup {[data |-> pdfData, shown |-> pdfFileName]}
                ELSE sentPdf
  /\ UNCHANGED <<pdfFileName, pdfData, readers, selections>>
  /\ FileUnchanged

(***************************************************************************)
(* HomeReviewGenerator: the form filled from the linked plan.              *)
(***************************************************************************)
LinkedPlan(id, subject, grade, contentConceptual, unit) ==
  [id |-> id,
   generalData |-> [subject |-> subject, grade |-> grade,
                    contentConceptual |-> contentConceptual, unit |-> unit]]
LinkedPlans ==
  {LinkedPlan("id1", "Biblia", "1er Grado", "Parabolas", "Unidad I"),
   LinkedPlan("id2", "Matematicas", "5to Grado", "", "Unidad II")}

NoEdit == [name |-> "", value |-> ""]
FieldNames == {"subject", "grade", "topic"}
FieldValues == {"Biblia", "x"}
\* useState({ subject: Subject.MATHEMATICS, grade: GradeLevel.FIFTH, topic: '' })
InitialForm == [subject |-> "Matematicas", grade |-> "5to Grado", topic |-> ""]

\* the object the effect passes to setFormData
FormFromPlan(plan) ==
  [subject |-> plan.generalData.subject,
   grade |-> plan.generalData.grade,
   topic |-> IF plan.generalData.contentConceptual # ""
             THEN plan.generalData.contentConceptual
             ELSE plan.generalData.unit]

\* a step of the form of kind "render" or "change": it starts no operation
FormStep(kind) ==
  /\ event' = Event(kind, "review")
  /\ alerted' = NoAlert
  /\ UNCHANGED <<operations, inflightOps, formVars, chatVars, widgetVars, reviewVars>>
  /\ UNCHANGED <<dashVars, fileVars, gatewayVars, cleanVars, docVars>>

\* the parent renders the component with another linkedPlan; the effect of
\* that render runs before the next event is handled
LinkPlanAlwaysFills(plan) ==
  /\ plan # linkedPlan
  /\ linkedPlan' = plan
  /\ IF plan # NoPlan
     THEN /\ reviewForm' = FormFromPlan(plan)
          /\ lastPlanId' = plan.id
     ELSE UNCHANGED <<reviewForm, lastPlanId>>
  /\ UNCHANGED lastEdit
  /\ FormStep("render")
LinkPlan(plan) ==
  /\ plan # linkedPlan
  /\ linkedPlan' = plan
  /\ IF plan # NoPlan /\ plan.id # lastPlanId
     THEN /\ reviewForm' = FormFromPlan(plan)
          /\ lastPlanId' = plan.id
     ELSE UNCHANGED <<reviewForm, lastPlanId>>
  /\ UNCHANGED lastEdit
  /\ FormStep("render")

\* setFormData({ ...formData, [e.target.name]: e.target.value })
handleChange(name, value) ==
  /\ reviewForm' = [reviewForm EXCEPT ![name] = value]
  /\ lastEdit' = [name |-> name, value |-> value]
  /\ UNCHANGED <<linkedPlan, lastPlanId>>
  /\ FormStep("change")

(***************************************************************************)
(* Specifications.                                                         *)
(***************************************************************************)
GatewayIdle ==
  /\ op = "none"
  /\ pc = "idle"
  /\ primaryModel = ""
  /\ uniqueModels = <<>>
  /\ inflight = {}
  /\ callLog = <<>>
  /\ netLog = <<>>
  /\ warned = <<>>
  /\ lastError = NoError
  /\ parsedData = UndefVal
  /\ result = UndefVal
  /\ thrown = NoError
  /\ issuedIds = {}
  /\ plans = <<>>
  /\ invocations = 0

CleanIdle ==
  /\ jsonObj = <<>>
  /\ text = <<>>
  /\ cleaned = <<>>
  /\ cleanPc = "off"

DocxIdle ==
  /\ docPlan = PlanContent(<<>>, [qualitative |-> <<>>, quantitative |-> <<>>], AbsentGuide)
  /\ docPc = "off"
  /\ docSaved = <<>>
  /\ docError = "null"

\* the state of LessonGenerator and HomeReviewGenerator after their first render
ViewMounted ==
  /\ loading = FALSE
  /\ generatedPlan = NoPlan
  /\ isChatOpen = FALSE
  /\ chatMessages = <<>>
  /\ currentChatInput = EmptyString
  /\ chatLoading = FALSE
  /\ planCall = "none"
  /\ chatCall = NoChatCall
  /\ submits = 0
  /\ chatSends = 0
  /\ planGenerated = <<>>
  /\ widgetLoading = [w \in ArtefactWidgets |-> FALSE]
  /\ widgetData = [w \in ArtefactWidgets |-> NoData]
  /\ widgetCall = [w \in ArtefactWidgets |-> NoRequest]
  /\ activeSlide = 0
  /\ reviewLoading = FALSE
  /\ generatedMessage = NoMessage
  /\ inflightOps = [w \in Widgets |-> 0]
  /\ operations = 0
  /\ event = NoEvent
  /\ alerted = NoAlert

DashIdle ==
  /\ savedPlans = <<>>
  /\ dashPc = "off"
  /\ subjectCount = EmptyObject
  /\ gradeCount = EmptyObject
  /\ totalPlanes = 0

FileIdle ==
  /\ pdfFileName = NoFile
  /\ pdfData = Undefined
  /\ readers = {}
  /\ selections = 0
  /\ sentPdf = {}

AutofillIdle ==
  /\ linkedPlan = NoPlan
  /\ lastPlanId = "null"
  /\ reviewForm = InitialForm
  /\ lastEdit = NoEdit

SideIdle == DashIdle /\ FileIdle /\ AutofillIdle

\* the gateway, driven by any caller
Init ==
  /\ apiKey \in ApiKeys
  /\ GatewayIdle
  /\ SideIdle
  /\ CleanIdle
  /\ DocxIdle
  /\ ViewMounted

Next ==
  \/ \E o \in Ops : InvokeWithoutKey(o)
  \/ \E o \in GenerateOps, m \in RequestModels : InvokeGenerate(o, m)
  \/ InvokeChat
  \/ \E i \in CandidateIndices, msg \in NetErrors : GenerateCallThrows(i, msg)
  \/ \E i \in CandidateIndices, o \in ResponseOutcomes : GenerateCallResolves(i, o)
  \/ \E i \in CandidateIndices, msg \in NetErrors : ChatCallThrows(i, msg)
  \/ \E i \in CandidateIndices, o \in ChatOutcomes : ChatCallResolves(i, o)

Spec == Init /\ [][Next]_vars

\* cleanJson as a function of the wrapped text
InitClean ==
  /\ apiKey = Undefined
  /\ GatewayIdle
  /\ SideIdle
  /\ DocxIdle
  /\ ViewMounted
  /\ \/ /\ jsonObj \in JsonObjects
        /\ \E kind \in FenceKinds, preamble \in Preambles, postscript \in Postscripts :
             text = Wrap(jsonObj, kind, preamble, postscript)
     \/ /\ jsonObj = <<>>
        /\ text \in RawTexts
  /\ cleaned = <<>>
  /\ cleanPc = "input"

NextClean ==
  \/ ApplyCleanJson
  \/ ApplyCleanJsonAgain

SpecClean == InitClean /\ [][NextClean]_vars

\* generateDocx as a function of the plan
InitDocx ==
  /\ apiKey = Undefined
  /\ GatewayIdle
  /\ SideIdle
  /\ CleanIdle
  /\ ViewMounted
  /\ docPlan \in DocxPlans
  /\ docPc = "input"
  /\ docSaved = <<>>
  /\ docError = "null"

NextDocx ==
  \/ generateDocx
  \/ ToBlobResolves
  \/ ToBlobRejects

SpecDocx == InitDocx /\ [][NextDocx]_vars

\* the dashboard as a function of the list of saved plans
InitDash ==
  /\ apiKey = Undefined
  /\ GatewayIdle
  /\ CleanIdle
  /\ DocxIdle
  /\ ViewMounted
  /\ savedPlans \in SavedPlanLists
  /\ dashPc = "input"
  /\ subjectCount = EmptyObject
  /\ gradeCount = EmptyObject
  /\ totalPlanes = 0
  /\ FileIdle
  /\ AutofillIdle

NextDash == Dashboard

SpecDash == InitDash /\ [][NextDash]_vars

\* the file field of the plan form
InitFile ==
  /\ apiKey = Undefined
  /\ GatewayIdle
  /\ SideIdle
  /\ CleanIdle
  /\ DocxIdle
  /\ ViewMounted

NextFile ==
  \/ \E file \in Files : handleFileChange(file)
  \/ \E reader \in [id : 1..MaxSelections, file : Files] : onloadend(reader)
  \/ clearFile
  \/ SendRequest

SpecFile == InitFile /\ [][NextFile]_vars

\* the home-review tab: the linked plan changes, the user edits the form and
\* asks for reviews
InitReview ==
  /\ apiKey = Undefined
  /\ GatewayIdle
  /\ SideIdle
  /\ CleanIdle
  /\ DocxIdle
  /\ ViewMounted

NextReview ==
  \/ \E plan \in LinkedPlans \cup {NoPlan} : LinkPlan(plan)
  \/ \E name \in FieldNames, value \in FieldValues : handleChange(name, value)
  \/ generateReview
  \/ \E message \in ReviewMessages : ReviewResolves(message)
  \/ ReviewRejects

SpecReview == InitReview /\ [][NextReview]_vars

\* the view, the gateway calls settling either way
InitView ==
  /\ apiKey = Undefined
  /\ GatewayIdle
  /\ SideIdle
  /\ CleanIdle
  /\ DocxIdle
  /\ ViewMounted

NextView ==
  \/ handleSubmit
  \/ \E plan \in PlanValues : PlanResolves(plan)
  \/ PlanRejects
  \/ ToggleChat
  \/ \E txt \in ChatInputs : TypeChat(txt)
  \/ Control(ChatEnabled, handleSendChat)
  \/ \E reply \in ChatReplies : ChatResolves(reply)
  \/ ChatRejects
  \/ \E type \in AssessmentTypes :
       Control(ArtefactButton("assessment"), handleGenerateAssessment(type))
  \/ Control(ArtefactButton("adaptation"), handleGenerateAdaptation)
  \/ Control(ArtefactButton("dynamics"), handleGenerateDynamics)
  \/ Control(ArtefactButton("worksheet"), handleGenerateWorksheet)
  \/ Control(ArtefactButton("whiteboard"), handleGenerateWhiteboard)
  \/ Control(ArtefactButton("slides"), handleGenerateSlides)
  \/ Control(ArtefactButton("vocab"), handleGenerateVocabulary)
  \/ \E w \in ArtefactWidgets : ArtefactResolves(w, IF w = "slides" THEN MaxSlides ELSE 0)
  \/ \E w \in ArtefactWidgets : ArtefactRejects(w)
  \/ generateReview
  \/ \E message \in ReviewMessages : ReviewResolves(message)
  \/ ReviewRejects
  \/ Control(WordButton, handleDownloadWord)
  \/ ExportResolves
  \/ ExportRejects

SpecView == InitView /\ [][NextView]_vars

\* the slide viewer: decks of every length are generated, paged through and
\* dropped by a new plan
NextSlides ==
  \/ handleSubmit
  \/ \E content \in PlanValues : PlanResolves(content)
  \/ PlanRejects
  \/ Control(ArtefactButton("slides"), handleGenerateSlides)
  \/ \E slides \in 0..MaxSlides : ArtefactResolves("slides", slides)
  \/ ArtefactRejects("slides")
  \/ previousSlide
  \/ nextSlide

SpecSlides == InitView /\ [][NextSlides]_vars

\* the handlers that need a plan, run through their controls and also
\* called while no plan is held
NextHandlers ==
  \/ handleSubmit
  \/ \E content \in PlanValues : PlanResolves(content)
  \/ PlanRejects
  \/ ToggleChat
  \/ \E txt \in ChatInputs : TypeChat(txt)
  \/ \E type \in AssessmentTypes :
       Control(generatedPlan = NoPlan \/ ArtefactButton("assessment"),
               handleGenerateAssessment(type))
  \/ Control(generatedPlan = NoPlan \/ ArtefactButton("adaptation"), handleGenerateAdaptation)
  \/ Control(generatedPlan = NoPlan \/ ArtefactButton("dynamics"), handleGenerateDynamics)
  \/ Control(generatedPlan = NoPlan \/ ArtefactButton("worksheet"), handleGenerateWorksheet)
  \/ Control(generatedPlan = NoPlan \/ ArtefactButton("whiteboard"), handleGenerateWhiteboard)
  \/ Control(generatedPlan = NoPlan \/ ArtefactButton("slides"), handleGenerateSlides)
  \/ Control(generatedPlan = NoPlan \/ ArtefactButton("vocab"), handleGenerateVocabulary)
  \/ Control(generatedPlan = NoPlan \/ ChatEnabled, handleSendChat)
  \/ handleDownloadWord

SpecHandlers == InitView /\ [][NextHandlers]_vars

(***************************************************************************)
(* Properties of the gateway (specification Spec).                         *)
(***************************************************************************)
\* a credential is configured
KeyConfigured == apiKey # Undefined /\ apiKey # EmptyString

\* the outcome of a call counts as a failure of its candidate: the call
\* threw, the text is absent or empty, or the cleaned text is not JSON
Failed(outcome) ==
  \/ outcome.kind = "throw"
  \/ outcome.kind = "notext"
  \/ outcome.txt = EmptyString
  \/ ~JSONparse(cleanJson(outcome.txt)).ok

Range(s) == {s[i] : i \in 1..Len(s)}

\* C1: when generateWithFallback returns, the calls issued are the first
\* K+1 candidates in list order, the first K of them failed, the last one
\* succeeded, nothing else is in flight, and the value returned is the
\* parse of the cleaned text of that last response.
C1_FirstSuccessReturned ==
  (pc = "returned" /\ op \in GenerateOps) =>
    LET n == Len(callLog)
    IN  /\ n \in 1..Len(uniqueModels)
        /\ callLog = SubSeq(uniqueModels, 1, n)
        /\ inflight = {}
        /\ Len(netLog) = n
        /\ \A i \in 1..(n - 1) : Failed(netLog[i])
        /\ ~Failed(netLog[n])
        /\ parsedData = JSONparse(cleanJson(netLog[n].txt)).val

\* the primary failed and the fallback succeeded (K = 1, N = 2)
C1_Witness ==
  /\ pc = "returned"
  /\ op \in GenerateOps
  /\ Len(uniqueModels) = 2
  /\ Len(callLog) = 2
  /\ netLog[1].kind = "text"
  /\ netLog[2].txt = FencedText

\* C2: when every candidate has failed, each distinct candidate was called
\* exactly once and the error raised is the very error recorded for the
\* last candidate called.
C2_AllFailRaisesLast ==
  (pc = "thrown" /\ op \in GenerateOps /\ KeyConfigured) =>
    LET n == Len(callLog)
    IN  /\ Range(callLog) = {primaryModel} \cup Range(FALLBACK_MODELS)
        /\ Cardinality(Range(callLog)) = n
        /\ Len(netLog) = n
        /\ \A i \in 1..n : Failed(netLog[i])
        /\ Len(warned) = n
        /\ thrown = warned[n]
        /\ thrown.at = n
        /\ netLog[n].kind = "throw" => thrown.msg = netLog[n].msg

\* two candidates failed with different errors
C2_Witness ==
  /\ pc = "thrown"
  /\ op \in GenerateOps
  /\ Len(callLog) = 2
  /\ warned[1].msg = "quota exceeded"
  /\ warned[2].msg = "503"

\* C3: the candidate list starts with the primary model, holds no name
\* twice and holds exactly the primary and the fallback names.
C3_CandidateList ==
  (op \in GenerateOps /\ KeyConfigured) =>
    /\ uniqueModels[1] = primaryModel
    /\ \A i, j \in 1..Len(uniqueModels) : uniqueModels[i] = uniqueModels[j] => i = j
    /\ Range(uniqueModels) = {primaryModel} \cup Range(FALLBACK_MODELS)

\* the primary is one of the fallback names
C3_Witness ==
  /\ op = "generateLessonPlanAI"
  /\ primaryModel \in Range(FALLBACK_MODELS)
  /\ uniqueModels = <<primaryModel>>
  /\ pc = "calling"

\* C5: at most one call of an invocation is in flight, and a candidate is
\* called only once every earlier call has settled and been recorded as a
\* failure.
C5_OneCallAtATime ==
  (op \in GenerateOps) =>
    /\ Cardinality(inflight) <= 1
    /\ Len(callLog) = Len(netLog) + Cardinality(inflight)
    /\ pc = "calling" =>
         /\ Len(warned) = Len(callLog) - 1
         /\ \A i \in 1..Len(netLog) : Failed(netLog[i])

\* the second candidate is in flight
C5_Witness ==
  /\ op \in GenerateOps
  /\ pc = "calling"
  /\ inflight = {2}
  /\ Len(netLog) = 1

\* C6: a call that throws, an empty text and a text that is not JSON after
\* cleanJson are each recorded as the last error and followed by the call
\* of the next candidate when there is one.
C6_FailuresFallThrough ==
  (op \in GenerateOps) =>
    \A i \in 1..Len(netLog) :
      Failed(netLog[i]) =>
        /\ Len(warned) >= i
        /\ warned[i].at = i
        /\ i = Len(netLog) => lastError = warned[i]
        /\ i < Len(uniqueModels) => (Len(callLog) > i /\ callLog[i + 1] = uniqueModels[i + 1])
        /\ pc = "thrown" => Len(netLog) = Len(uniqueModels)

\* a text that is not JSON, then an absent text
C6_Witness ==
  /\ op \in GenerateOps
  /\ Len(netLog) = 2
  /\ netLog[1] = Text(BrokenText)
  /\ netLog[2] = NoText
  /\ warned[1].msg = "Invalid JSON returned by"
  /\ lastError.msg = "No text in response"

\* C7: without a credential every exported operation throws the
\* missing-credential error and no network call is issued.
C7_NoKeyNoCall ==
  (~KeyConfigured /\ op # "none") =>
    /\ pc = "thrown"
    /\ thrown = ApiKeyMissing
    /\ callLog = <<>>
    /\ inflight = {}
    /\ netLog = <<>>

\* the chat was invoked with an empty credential
C7_Witness ==
  /\ apiKey = EmptyString
  /\ op = "chatWithLessonPlan"
  /\ pc = "thrown"
  /\ invocations = 2

\* C8: a plan returned by generateLessonPlanAI has the fields of the parsed
\* response that succeeded, except id, which is an identifier handed out by
\* randomUUID; no two plans returned share an id.
C8_FreshId ==
  /\ (pc = "returned" /\ op = "generateLessonPlanAI") =>
       LET parsed == JSONparse(cleanJson(netLog[Len(netLog)].txt)).val
       IN  /\ result.t = "obj"
           /\ DOMAIN result.m = (DOMAIN parsed.m) \cup {IdKey}
           /\ \A k \in (DOMAIN parsed.m) \ {IdKey} : result.m[k] = parsed.m[k]
           /\ result.m[IdKey].t = "str"
           /\ result.m[IdKey].s \in issuedIds
           /\ result = plans[Len(plans)]
  /\ \A i, j \in 1..Len(plans) : plans[i].m[IdKey] = plans[j].m[IdKey] => i = j

\* the primary threw "quota exceeded", the fallback returned an object
\* with an id of its own, and it is the second plan generated
C8_Witness ==
  /\ pc = "returned"
  /\ op = "generateLessonPlanAI"
  /\ Len(callLog) = 2
  /\ netLog[1] = Throws("quota exceeded")
  /\ netLog[2] = Text(ObjIdText)
  /\ Len(plans) = 2

\* C10: the chat calls the flash model first and the pro model only after
\* the first call threw, never more than two calls; when both throw, the
\* error raised is the one of the second call.
C10_ChatFallback ==
  (op = "chatWithLessonPlan" /\ KeyConfigured) =>
    /\ Len(callLog) \in 1..2
    /\ Cardinality(inflight) <= 1
    /\ callLog[1] = "gemini-3-flash-preview"
    /\ Len(callLog) = 2 => (callLog[2] = "gemini-3-pro-preview" /\ netLog[1].kind = "throw")
    /\ (Len(netLog) >= 1 /\ netLog[1].kind # "throw") => (Len(callLog) = 1 /\ pc = "returned")
    /\ pc = "thrown" => (Len(netLog) = 2 /\ thrown = Error(netLog[2].msg, "", 2))

\* both chat calls threw, with different errors
C10_Witness ==
  /\ op = "chatWithLessonPlan"
  /\ pc = "thrown"
  /\ Len(netLog) = 2
  /\ netLog[1] = Throws("503")
  /\ netLog[2] = Throws("quota exceeded")

\* C20: an operation reports failure only after the requested model and at
\* least one fallback model have been called.
C20_FallbackTried ==
  (pc = "thrown" /\ op \in Ops /\ KeyConfigured) => Len(callLog) >= 2

(***************************************************************************)
(* Properties of cleanJson (specification SpecClean).                      *)
(***************************************************************************)
\* C4: the cleaned text of a wrapped object parses to that object.
C4_RoundTrip ==
  (cleanPc = "cleaned" /\ jsonObj \in JsonObjects) =>
    JSONparse(cleaned) = [ok |-> TRUE, val |-> JSONparse(jsonObj).val]

\* C30: cleanJson applied to a result of cleanJson returns it unchanged.
C30_Idempotent ==
  cleanPc = "again" => cleaned = text

\* a fenced object between a preamble and a postscript was cleaned twice
C30_Witness ==
  /\ cleanPc = "again"
  /\ jsonObj = NestedText
  /\ cleaned = NestedText
  /\ text = NestedText

(***************************************************************************)
(* Properties of the view (specification SpecView).                        *)
(***************************************************************************)
\* C9: a chat send passes as history the transcript as it was before the
\* send and the typed text as the new message; the transcript then grows
\* by exactly that user message.
C9_HistoryIsTranscriptBeforeSend ==
  [][(~chatCall.pending /\ chatCall'.pending) =>
       /\ chatCall'.history = chatMessages
       /\ chatCall'.newMessage = currentChatInput
       /\ chatMessages' = Append(chatMessages, Message("user", currentChatInput))]_vars

\* a second message is sent after a first one was answered
C9_Witness ==
  /\ chatCall.pending
  /\ Len(chatCall.history) = 2
  /\ chatCall.history[1].role = "user"
  /\ chatCall.history[2].role = "model"
  /\ Len(chatMessages) = 3

\* the busy flag of a widget
Busy(w) ==
  CASE w = "plan" -> loading
    [] w = "review" -> reviewLoading
    [] w = "chat" -> chatLoading
    [] OTHER -> widgetLoading[w]
\* what a widget holds: the plan, the review message, the transcript, the artefact
Stored(w) ==
  CASE w = "plan" -> generatedPlan
    [] w = "review" -> generatedMessage
    [] w = "chat" -> chatMessages
    [] OTHER -> widgetData[w]
\* the alert of the catch block of a widget other than the chat
ErrorMessage(w) ==
  CASE w = "plan" -> PlanError
    [] w = "review" -> ReviewError
    [] OTHER -> ArtefactError(w)
OperationStep(e) == e.kind \in {"start", "resolve", "reject"} /\ e.widget \in Widgets

\* C11: no widget ever has two gateway operations in flight, and no
\* operation of a widget starts while its busy flag is set.
C11_OneOperationPerWidget ==
  [][\A w \in Widgets :
       /\ inflightOps'[w] <= 1
       /\ event' = Event("start", w) => ~Busy(w) /\ inflightOps[w] = 0]_vars

\* an assessment and a chat message are in flight together, one each
C11_Witness ==
  /\ inflightOps["assessment"] = 1
  /\ widgetLoading["assessment"]
  /\ inflightOps["chat"] = 1
  /\ chatLoading

\* C12 as stated: every rejected operation of a widget raises an alert.
C12_EveryFailureAlerts ==
  [][(event'.kind = "reject" /\ event'.widget \in Widgets) => alerted' # NoAlert]_vars

\* C12: a rejected plan, home-review or artefact operation raises the alert
\* of its handler, a fixed text; a rejected chat operation raises no alert
\* and appends the connection-error text to the transcript as a model message.
C12_FailuresAlertExceptChat ==
  [][\A w \in Widgets : event' = Event("reject", w) =>
       IF w = "chat"
       THEN /\ alerted' = NoAlert
            /\ chatMessages' = Append(chatMessages, Message("model", ConnectionError))
       ELSE alerted' = ErrorMessage(w)]_vars

\* the slides operation has just been rejected and its alert shown
C12_Witness ==
  /\ event = Event("reject", "slides")
  /\ alerted = ArtefactError("slides")

\* C13: a widget's busy flag is set exactly while its gateway call is in
\* flight: set by the step that starts the call, cleared by the step in
\* which the call resolves or rejects.
C13_BusyWhileInFlight ==
  \A w \in Widgets : Busy(w) <=> inflightOps[w] > 0

\* the home-review call has been rejected and the form is idle again
C13_Witness ==
  /\ event = Event("reject", "review")
  /\ ~reviewLoading
  /\ inflightOps["review"] = 0

\* C15: the step in which plan generation resolves stores the plan and
\* appends that plan, once, to the invocations of onPlanGenerated; the step
\* in which it rejects leaves no plan held and invokes nothing; no other
\* step invokes onPlanGenerated.
C15_PlanStoredAndReported ==
  [][/\ event' = Event("resolve", "plan") =>
          /\ generatedPlan' # NoPlan
          /\ planGenerated' = Append(planGenerated, generatedPlan')
     /\ event' = Event("reject", "plan") =>
          /\ generatedPlan' = NoPlan
          /\ planGenerated' = planGenerated
     /\ (event'.widget # "plan" \/ event'.kind = "start") =>
          planGenerated' = planGenerated]_vars

\* two plans were generated, each reported once, the second one is held
C15_Witness ==
  /\ Len(planGenerated) = 2
  /\ planGenerated[1].id # planGenerated[2].id
  /\ generatedPlan = planGenerated[2]
  /\ event = Event("resolve", "plan")

\* C16 as stated: a step of one widget's operation changes no other
\* widget's stored result, transcript or busy flag.
C16_WidgetsIndependent ==
  [][\A w \in Widgets : (OperationStep(event') /\ event'.widget = w) =>
       \A v \in Widgets \ {w} : Stored(v)' = Stored(v) /\ Busy(v)' = Busy(v)]_vars

\* C16: a step of one widget's operation changes no other widget's busy
\* flag; it changes no other widget's stored result or transcript either,
\* except that submitting the plan form resets every artefact and empties
\* the transcript (the home-review message is kept).
C16_IndependentExceptSubmit ==
  [][\A w \in Widgets : (OperationStep(event') /\ event'.widget = w) =>
       \A v \in Widgets \ {w} :
         /\ Busy(v)' = Busy(v)
         /\ IF event' = Event("start", "plan") /\ v # "review"
            THEN Stored(v)' = (IF v = "chat" THEN <<>> ELSE NoData)
            ELSE Stored(v)' = Stored(v)]_vars

\* the assessment resolves while a chat message is in flight
C16_Witness ==
  /\ event = Event("resolve", "assessment")
  /\ widgetData["assessment"].set
  /\ chatLoading
  /\ Len(chatMessages) = 1

\* C17: the step in which the Word export fails shows the export alert and
\* changes nothing the view holds: plan, artefacts, transcript, busy flags.
C17_ExportFailureCaught ==
  [][event' = Event("reject", "word") =>
       /\ alerted' = WordError
       /\ UNCHANGED <<formVars, chatVars, widgetVars, reviewVars, inflightOps>>]_vars

\* the export of a plan whose teacher guide is {} has thrown and was alerted
C17_Witness ==
  /\ event = Event("reject", "word")
  /\ docError = TypeError
  /\ alerted = WordError
  /\ generatedPlan = docPlan

\* C18: a step of the export, of the chat or of an artefact widget leaves
\* the plan held by the view, and every plan handed to onPlanGenerated,
\* field for field as it was; the export and the chat call receive that plan.
C18_PlanNeverMutated ==
  [][(event'.widget \in {"word", "chat"} \cup ArtefactWidgets) =>
       /\ generatedPlan' = generatedPlan
       /\ planGenerated' = planGenerated
       /\ event' = Event("start", "word") => docPlan' = generatedPlan
       /\ event' = Event("start", "chat") => chatCall'.plan = generatedPlan]_vars

\* a plan has been exported and is still the plan held
C18_Witness ==
  /\ event = Event("resolve", "word")
  /\ docPc = "saved"
  /\ generatedPlan = docPlan
  /\ planGenerated = <<generatedPlan>>

\* nothing is held: no plan, no artefact, an empty transcript
NothingHeld ==
  /\ generatedPlan = NoPlan
  /\ \A w \in ArtefactWidgets : ~widgetData[w].set
  /\ chatMessages = <<>>

\* C21: the step that submits the plan form leaves no plan, no artefact and
\* an empty transcript, and so does the step in which the generation fails
\* and the busy flag is cleared.
C21_FailedSubmitLeavesNothing ==
  [][(event' = Event("start", "plan") \/ event' = Event("reject", "plan")) =>
       NothingHeld']_vars

\* C22: an artefact displayed with a plan was requested from that plan.
C22_ArtefactOfDisplayedPlan ==
  generatedPlan # NoPlan =>
    \A w \in ArtefactWidgets :
      widgetData[w].set => widgetData[w].plan = generatedPlan.id

\* C23: the transcript alternates user, model, user, ... from a user
\* message, and its last message is an unanswered user message only while
\* chatLoading is set.
C23_TranscriptAlternates ==
  /\ \A i \in 1..Len(chatMessages) :
       chatMessages[i].role = (IF i % 2 = 1 THEN "user" ELSE "model")
  /\ Len(chatMessages) % 2 = 1 => chatLoading

\* C24: every model message of the history handed to chatWithLessonPlan
\* carries a text the chat service resolved with.
C24_ReplayedModelTextFromService ==
  chatCall.pending =>
    \A i \in 1..Len(chatCall.history) :
      chatCall.history[i].role = "model" => chatCall.history[i].text \in ChatReplies

(***************************************************************************)
(* Properties of generateDocx (specification SpecDocx).                    *)
(***************************************************************************)
\* the guide carries nothing: not set, an object without properties, or an
\* object of empty lists
GuideEmptyOrAbsent(guide) ==
  \/ ~guide.defined
  \/ guide.keys = {}
  \/ guide.keyVocabulary = <<>> /\ guide.differentiation = <<>>

IsMarker(e) == e[1] \in {"table", "h"}
MarkerName(e) == IF e[1] = "table" THEN "table" ELSE e[2]
\* the table and the headings of a document, in document order
Markers(children) ==
  LET ms == SelectSeq(children, IsMarker)
  IN [i \in 1..Len(ms) |-> MarkerName(ms[i])]
IsContent(e) == e # Spacer
\* the paragraphs after the heading from, up to the heading to (to the end
\* of the document when that heading is missing), spacers left out
Section(children, from, to) ==
  LET a == IndexOf(children, Heading(from)) + 1
      b == IF IndexOf(children, Heading(to)) >= 0
           THEN IndexOf(children, Heading(to))
           ELSE Len(children)
  IN SelectSeq(SubSeq(children, a + 1, b), IsContent)

MandatorySections ==
  <<"table", "Contenido Conceptual:", "Indicador de Logro:", "Integracion de la Fe:",
    "Secuencia Didactica (ACES):", "Evaluacion:">>

\* C14: the export of a plan whose teacher guide is empty or absent completes
\* and saves a document that has the six mandatory sections and no
\* teacher-guide heading.
C14_EmptyGuideOmitted ==
  (docPc \in {"saved", "thrown"} /\ docError # PackerError
     /\ GuideEmptyOrAbsent(docPlan.teacherGuide)) =>
    /\ docPc = "saved"
    /\ Markers(docSaved) = MandatorySections

\* the paragraphs of one step: its title line, then its activities in order
StepOutline(step) ==
  <<Paragraph(<<step.phase, ": ", step.title, " (", step.time, ")">>)>>
    \o [i \in 1..Len(step.activities) |-> Paragraph(<<"* ", step.activities[i]>>)]
RECURSIVE SequenceOutline(_)
SequenceOutline(sequence) ==
  IF sequence = <<>> THEN <<>>
  ELSE StepOutline(Head(sequence)) \o SequenceOutline(Tail(sequence))
Items(items) == [i \in 1..Len(items) |-> Paragraph(<<"- ", items[i]>>)]

\* C19: in a saved document the table and the headings appear in the fixed
\* order, the teacher guide last when the plan has one; the methodology
\* section lists the steps in the order of plan.sequence, each followed by
\* its activities in order; the evaluation section lists the qualitative
\* items and then the quantitative ones.
C19_FixedSectionOrder ==
  docPc = "saved" =>
    /\ Markers(docSaved) =
         MandatorySections
           \o (IF docPlan.teacherGuide.defined THEN <<"Guia Docente:">> ELSE <<>>)
    /\ Section(docSaved, "Secuencia Didactica (ACES):", "Evaluacion:")
         = SequenceOutline(docPlan.sequence)
    /\ Section(docSaved, "Evaluacion:", "Guia Docente:")
         = <<Paragraph(<<"Cualitativa:">>)>> \o Items(docPlan.evaluation.qualitative)
             \o <<Paragraph(<<"Cuantitativa:">>)>> \o Items(docPlan.evaluation.quantitative)

\* a plan of two steps, items of both kinds and a guide has been exported
C19_Witness ==
  /\ docPc = "saved"
  /\ Len(docPlan.sequence) = 2
  /\ docPlan.sequence[1] # docPlan.sequence[2]
  /\ docPlan.evaluation.qualitative # <<>>
  /\ docPlan.teacherGuide = FullGuide
  /\ Markers(docSaved)[7] = "Guia Docente:"

(***************************************************************************)
(* Properties of the dashboard (specification SpecDash).                   *)
(***************************************************************************)
RECURSIVE SumCounts(_, _)
SumCounts(count, keys) ==
  IF keys = {} THEN 0
  ELSE LET k == CHOOSE x \in keys : TRUE
       IN count[k].n + SumCounts(count, keys \ {k})

\* one entry for each value present, each a number of at least 1, the
\* entries adding up to the length of the list
CountsPartition(count, values) ==
  /\ DOMAIN count = {values[i] : i \in 1..Len(values)}
  /\ \A k \in DOMAIN count : count[k].num /\ count[k].n >= 1
  /\ SumCounts(count, DOMAIN count) = Len(values)

\* C29: in a rendered dashboard the per-subject counts and the per-grade
\* counts each have one numeric entry of at least 1 for every value present
\* and add up to the number of saved plans, which is the total shown.
C29_CountsAddUp ==
  dashPc = "rendered" =>
    /\ CountsPartition(subjectCount, [i \in 1..Len(savedPlans) |-> savedPlans[i].subject])
    /\ CountsPartition(gradeCount, [i \in 1..Len(savedPlans) |-> savedPlans[i].grade])
    /\ totalPlanes = Len(savedPlans)

(***************************************************************************)
(* Properties of the file field (specification SpecFile).                  *)
(***************************************************************************)
\* C26: while no file name is shown the form holds no PDF data, and no
\* request carries PDF data built while no file name was shown.
C26_NoNameNoData ==
  /\ pdfFileName = NoFile => pdfData = Undefined
  /\ \A part \in sentPdf : part.shown # NoFile

(***************************************************************************)
(* Properties of the home-review form (specification SpecReview).          *)
(***************************************************************************)
\* the plan linked after the step is one the form was not yet filled from
LinkedIdDiffers == linkedPlan' # NoPlan /\ linkedPlan'.id # lastPlanId

\* C28: a step after which the linked plan's id differs from the id last
\* filled from writes the plan's subject and grade, and its
\* contentConceptual (its unit when that is empty), into the form, records
\* the id and starts no gateway call; any other step leaves the form as it
\* was, but for the one field that a change event handled by that step sets.
C28_AutofillOnNewIdOnly ==
  [][ /\ LinkedIdDiffers =>
           /\ reviewForm'.subject = linkedPlan'.generalData.subject
           /\ reviewForm'.grade = linkedPlan'.generalData.grade
           /\ reviewForm'.topic =
                IF linkedPlan'.generalData.contentConceptual = ""
                THEN linkedPlan'.generalData.unit
                ELSE linkedPlan'.generalData.contentConceptual
           /\ lastPlanId' = linkedPlan'.id
           /\ operations' = operations
           /\ inflightOps' = inflightOps
           /\ reviewLoading' = reviewLoading
      /\ ~LinkedIdDiffers =>
           /\ lastPlanId' = lastPlanId
           /\ reviewForm' = IF event'.kind = "change"
                            THEN [reviewForm EXCEPT ![lastEdit'.name] = lastEdit'.value]
                            ELSE reviewForm
    ]_vars

\* the plan an edited form was filled from is linked again after another
\* one, and after being unlinked, and a review of it is in flight
C28_Witness ==
  /\ linkedPlan \in LinkedPlans
  /\ lastPlanId = linkedPlan.id
  /\ linkedPlan.generalData.contentConceptual = ""
  /\ reviewForm.topic = linkedPlan.generalData.unit
  /\ reviewForm.subject # linkedPlan.generalData.subject
  /\ reviewLoading

(***************************************************************************)
(* Properties of the slide viewer (specification SpecSlides).              *)
(***************************************************************************)
\* C25: whenever a slide deck is displayed (a plan is held and slidesData
\* is set), activeSlide is the index of one of its slides.
C25_ActiveSlideInDeck ==
  generatedPlan # NoPlan /\ widgetData["slides"].set =>
    0 <= activeSlide /\ activeSlide < widgetData["slides"].slides

(***************************************************************************)
(* Properties of the handlers that need a plan (specification              *)
(* SpecHandlers).                                                          *)
(***************************************************************************)
HandlerWidgets == ArtefactWidgets \cup {"word", "chat"}

\* the step is a run of the handler of widget w: it returns at once, starts
\* its call, or (the export) fails before any call is in flight
HandlerRan(w) ==
  /\ event'.widget = w
  /\ \/ event'.kind \in {"start", "return"}
     \/ w = "word" /\ event'.kind = "reject" /\ docPc # "packing"

\* C27: a run of an artefact handler, of the Word handler or of the chat
\* handler while no plan is held, and a run of the chat handler while the
\* input is empty or blank, returns at once: no operation starts and no busy
\* flag, stored result, transcript entry, pending call, document or gateway
\* state changes.
C27_NoPlanNoOp ==
  [][ \A w \in HandlerWidgets :
        (/\ HandlerRan(w)
         /\ \/ generatedPlan = NoPlan
            \/ w = "chat" /\ Trim(currentChatInput) = EmptyString)
        => /\ event'.kind = "return"
           /\ UNCHANGED <<operations, inflightOps, formVars, chatVars, widgetVars,
                          reviewVars, docVars, gatewayVars>>
    ]_vars

\* the chat handler has returned with a message typed but no plan held,
\* while a call for the former plan was still in flight
C27_Witness ==
  /\ generatedPlan = NoPlan
  /\ event = Event("return", "chat")
  /\ Trim(currentChatInput) # EmptyString
  /\ \E w \in ArtefactWidgets : widgetLoading[w]

====
